---- MODULE Spec2Model ----
(***************************************************************************)
(* AutoSage: the bounded process runner (autosage/runner.py), the ngspice  *)
(* tool adapter (autosage/tools/ngspice.py) and the request dispatcher     *)
(* (autosage/server.py), as one state machine.                             *)
(*                                                                         *)
(* Text and byte strings are sequences of one-character strings, so that   *)
(* strip(), lower(), splitlines(), slicing and decoding are computed.      *)
(* A byte below 0x80 is written as its ASCII character; the bytes 0xC3 and *)
(* 0xA9 are written "xC3" and "xA9".                                       *)
(***************************************************************************)
EXTENDS Integers, Sequences, FiniteSets, TLC

VARIABLES
    call,       \* the operation in progress and its locals
    payload,    \* the request body handle_run was given (JNull outside handle_run)
    result,     \* what the outermost call returned or raised
    rp,         \* run_process's locals
    child,      \* the child process and its two pipes
    workdir,    \* the entries of the temporary working directory
    default_limits, \* the module-level DEFAULT_LIMITS dict
    hist        \* history of this call: run_process invocations, files written

vars == <<call, payload, result, rp, child, workdir, default_limits, hist>>

---------------------------------------------------------------------------
(* Bounds of the model *)

\* the child of a direct run_process call makes at most this many writes
MaxWrites == 2
\* the child of a tool operation makes at most this many writes
MaxOpWrites == 1
\* the clock advances at most this many times by SELECT_MS during one run
MaxTicks == 2

---------------------------------------------------------------------------
(* JSON / Python values *)

JNull == [t |-> "null"]
JBool(b) == [t |-> "bool", b |-> b]
JNum(n) == [t |-> "num", n |-> n]
\* a JSON number with a fraction (Python float), in tenths
JFloat(x10) == [t |-> "float", x10 |-> x10]
JStr(s) == [t |-> "str", s |-> s]
JArr(a) == [t |-> "arr", a |-> a]
JObj(o) == [t |-> "obj", o |-> o]

EmptyDict == JObj(<<>>)

\* dict.get(key): None when the key is absent
Get(obj, key) == IF key \in DOMAIN obj.o THEN obj.o[key] ELSE JNull

\* Python truthiness, as used by `x or {}` and `if limits:`
Truthy(v) ==
    CASE v.t = "null" -> FALSE
      [] v.t = "bool" -> v.b
      [] v.t = "num" -> v.n # 0
      [] v.t = "float" -> v.x10 # 0
      [] v.t = "str" -> Len(v.s) > 0
      [] v.t = "arr" -> Len(v.a) > 0
      [] v.t = "obj" -> DOMAIN v.o # {}

\* `a or b`
PyOr(a, b) == IF Truthy(a) THEN a ELSE b

\* isinstance(v, dict)
IsDict(v) == v.t = "obj"

\* isinstance(v, str)
IsStr(v) == v.t = "str"

\* isinstance(v, int): bool is a subclass of int
IsInt(v) == v.t \in {"num", "bool"}

\* the value of an int (or bool) in arithmetic and comparisons
IntVal(v) == IF v.t = "bool" THEN (IF v.b THEN 1 ELSE 0) ELSE v.n

\* lists and dicts are unhashable: a set membership test on them raises TypeError
Hashable(v) == v.t \notin {"arr", "obj"}

---------------------------------------------------------------------------
(* Characters and text *)

UPPER == <<"A","B","C","D","E","F","G","H","I","J","K","L","M",
           "N","O","P","Q","R","S","T","U","V","W","X","Y","Z">>
LOWER == <<"a","b","c","d","e","f","g","h","i","j","k","l","m",
           "n","o","p","q","r","s","t","u","v","w","x","y","z">>

IndexIn(seq, c) == CHOOSE i \in 1..Len(seq) : seq[i] = c
IsUpper(c) == \E i \in 1..Len(UPPER) : UPPER[i] = c
IsLower(c) == \E i \in 1..Len(LOWER) : LOWER[i] = c

\* str.lower() on one character
LowerChar(c) == IF IsUpper(c) THEN LOWER[IndexIn(UPPER, c)] ELSE c

\* str.lower()
Lower(s) == [i \in 1..Len(s) |-> LowerChar(s[i])]

\* the code point of a character (the order sorted() uses on names)
Ord(c) ==
    CASE c = "\n" -> 10
      [] c = "\r" -> 13
      [] c = " " -> 32
      [] c = "." -> 46
      [] c = ":" -> 58
      [] c = "[" -> 91
      [] c = "]" -> 93
      [] IsUpper(c) -> 64 + IndexIn(UPPER, c)
      [] IsLower(c) -> 96 + IndexIn(LOWER, c)
      [] OTHER -> 65533

\* characters str.strip() removes
IsSpace(c) == c \in {" ", "\n", "\r", "\t"}

RECURSIVE LStrip(_)
LStrip(s) == IF s # <<>> /\ IsSpace(Head(s)) THEN LStrip(Tail(s)) ELSE s

RECURSIVE RStrip(_)
RStrip(s) ==
    IF s # <<>> /\ IsSpace(s[Len(s)]) THEN RStrip(SubSeq(s, 1, Len(s) - 1)) ELSE s

\* str.strip()
Strip(s) == RStrip(LStrip(s))

\* s[:n]
Take(s, n) == IF n <= 0 THEN <<>> ELSE SubSeq(s, 1, IF n < Len(s) THEN n ELSE Len(s))

\* s[n:]
Drop(s, n) == IF n >= Len(s) THEN <<>> ELSE SubSeq(s, n + 1, Len(s))

\* `pat in s`
Contains(s, pat) ==
    \E i \in 0..(Len(s) - Len(pat)) : SubSeq(s, i + 1, i + Len(pat)) = pat

IsLineBreak(c) == c \in {"\n", "\r"}

\* str.splitlines(): break after "\n", "\r" or "\r\n"; no empty last line
RECURSIVE SplitLinesFrom(_, _)
SplitLinesFrom(s, cur) ==
    IF s = <<>> THEN (IF cur = <<>> THEN <<>> ELSE <<cur>>)
    ELSE IF IsLineBreak(Head(s))
         THEN LET rest == IF Head(s) = "\r" /\ Len(s) > 1 /\ s[2] = "\n"
                          THEN Drop(s, 2) ELSE Tail(s)
              IN  <<cur>> \o SplitLinesFrom(rest, <<>>)
         ELSE SplitLinesFrom(Tail(s), Append(cur, Head(s)))

SplitLines(s) == SplitLinesFrom(s, <<>>)

\* "\n".join(lines)
RECURSIVE JoinLines(_)
JoinLines(lines) ==
    IF lines = <<>> THEN <<>>
    ELSE IF Len(lines) = 1 THEN lines[1]
    ELSE lines[1] \o <<"\n">> \o JoinLines(Tail(lines))

\* bytes.decode("utf-8", errors="replace") on the byte alphabet of the model:
\* ASCII bytes decode to themselves, 0xC3 0xA9 to one character, and a lead
\* byte without its continuation or a stray continuation byte to U+FFFD
RECURSIVE Decode(_)
Decode(bytes) ==
    IF bytes = <<>> THEN <<>>
    ELSE IF Head(bytes) = "xC3"
         THEN IF Len(bytes) > 1 /\ bytes[2] = "xA9"
              THEN <<"e_acute">> \o Decode(Drop(bytes, 2))
              ELSE <<"U+FFFD">> \o Decode(Tail(bytes))
    ELSE IF Head(bytes) = "xA9" THEN <<"U+FFFD">> \o Decode(Tail(bytes))
    ELSE <<Head(bytes)>> \o Decode(Tail(bytes))

---------------------------------------------------------------------------
(* autosage/tools/ngspice.py: helpers *)

\* DEFAULT_LIMITS at import time
InitialDefaultLimits ==
    [timeout_ms |-> JNum(10000),
     max_stdout_bytes |-> JNum(1000000),
     max_stderr_bytes |-> JNum(1000000),
     max_file_bytes |-> JNum(10000000)]

LimitKeys == {"timeout_ms", "max_stdout_bytes", "max_stderr_bytes", "max_file_bytes"}

ALLOWED_FILE_EXTENSIONS == {<<".","l","o","g">>, <<".","r","a","w">>, <<".","t","x","t">>}

\* _build_limits(limits): a copy of the defaults, overridden key by key;
\* `defaults` is the module-level dict, returned as it is left by the call
_build_limits(defaults, limits) ==
    [merged |->
        [key \in DOMAIN defaults |->
            IF Truthy(limits) /\ key \in DOMAIN limits.o /\ IsInt(limits.o[key])
            THEN limits.o[key]
            ELSE defaults[key]],
     defaults |-> defaults]

\* the error member of an envelope
ErrorObj(error_type, message, details) ==
    [t |-> "obj", type |-> error_type, message |-> message, details |-> details]

\* _error_response(error_type, message, details)
_error_response(error_type, message, details) ==
    [ok |-> FALSE,
     stdout |-> <<>>,
     stderr |-> <<>>,
     files |-> <<>>,
     metrics |-> [elapsed_ms |-> 0, exit_code |-> -1],
     error |-> ErrorObj(error_type, message, PyOr(details, EmptyDict))]

\* _response(ok, stdout, stderr, files, elapsed_ms, exit_code, error)
_response(ok, stdout, stderr, files, elapsed_ms, exit_code, error) ==
    [ok |-> ok,
     stdout |-> stdout,
     stderr |-> stderr,
     files |-> files,
     metrics |-> [elapsed_ms |-> elapsed_ms, exit_code |-> exit_code],
     error |-> error]

\* a < b for two names, by code points (str.__lt__)
RECURSIVE NameLess(_, _)
NameLess(a, b) ==
    IF b = <<>> THEN FALSE
    ELSE IF a = <<>> THEN TRUE
    ELSE IF Ord(Head(a)) # Ord(Head(b)) THEN Ord(Head(a)) < Ord(Head(b))
    ELSE NameLess(Tail(a), Tail(b))

\* sorted(workdir.iterdir(), key=lambda p: p.name)
RECURSIVE SortedByName(_)
SortedByName(entries) ==
    IF entries = {} THEN <<>>
    ELSE LET first == CHOOSE e \in entries :
                          \A o \in entries \ {e} : NameLess(e.name, o.name)
         IN  <<first>> \o SortedByName(entries \ {first})

\* str.rfind(".") as a 1-based index, 0 when there is none
RECURSIVE RFindDot(_)
RFindDot(name) ==
    IF name = <<>> THEN 0
    ELSE IF name[Len(name)] = "." THEN Len(name)
    ELSE RFindDot(SubSeq(name, 1, Len(name) - 1))

\* PurePath.suffix: from the last dot, unless the dot leads or ends the name
PathSuffix(name) ==
    LET i == RFindDot(name)
    IN  IF 1 < i /\ i < Len(name) THEN SubSeq(name, i, Len(name)) ELSE <<>>

\* one collected artifact; bytes_base64 carries `data`
Artifact(entry) == [name |-> entry.name, data |-> entry.data]

\* the loop body's test comparing the suffix as it is, without lower()
CollectableCaseSensitive(entry, max_file_bytes) ==
    /\ entry.kind = "file"
    /\ PathSuffix(entry.name) \in ALLOWED_FILE_EXTENSIONS
    /\ ~(Len(entry.data) > max_file_bytes)

\* the test of _collect_files's loop body
Collectable(entry, max_file_bytes) ==
    /\ entry.kind = "file"
    /\ Lower(PathSuffix(entry.name)) \in ALLOWED_FILE_EXTENSIONS
    /\ ~(Len(entry.data) > max_file_bytes)

RECURSIVE CollectFrom(_, _)
CollectFrom(sorted, max_file_bytes) ==
    IF sorted = <<>> THEN <<>>
    ELSE (IF Collectable(Head(sorted), max_file_bytes)
          THEN <<Artifact(Head(sorted))>> ELSE <<>>)
         \o CollectFrom(Tail(sorted), max_file_bytes)

\* _collect_files(workdir, max_file_bytes)
_collect_files(dir, max_file_bytes) == CollectFrom(SortedByName(dir), max_file_bytes)

S_error == <<"e","r","r","o","r",":">>
S_fatal == <<"f","a","t","a","l">>

\* the per-line test shared by _log_has_errors and _log_relevant_excerpt
LineIsRelevant(line) == Contains(Lower(line), S_error) \/ Contains(Lower(line), S_fatal)

\* _log_has_errors scanning the lines as they are, without lower()
LogHasErrorsCaseSensitive(log_text) ==
    \E i \in 1..Len(SplitLines(log_text)) :
        \/ Contains(SplitLines(log_text)[i], S_error)
        \/ Contains(SplitLines(log_text)[i], S_fatal)

\* _log_has_errors(log_text)
_log_has_errors(log_text) ==
    LET lower_lines == [i \in 1..Len(SplitLines(log_text)) |-> Lower(SplitLines(log_text)[i])]
    IN  \E i \in 1..Len(lower_lines) :
            Contains(lower_lines[i], S_error) \/ Contains(lower_lines[i], S_fatal)

RECURSIVE RelevantLines(_)
RelevantLines(lines) ==
    IF lines = <<>> THEN <<>>
    ELSE (IF LineIsRelevant(Head(lines)) THEN <<Head(lines)>> ELSE <<>>)
         \o RelevantLines(Tail(lines))

\* _log_relevant_excerpt(log_text, limit_lines)
_log_relevant_excerpt(log_text, limit_lines) ==
    LET lines == SplitLines(log_text)
        relevant == RelevantLines(lines)
    IN  IF relevant # <<>> THEN JoinLines(Take(relevant, limit_lines))
        ELSE JoinLines(Take(lines, limit_lines))

\* the limit_lines validate_netlist passes
LIMIT_LINES == 50

---------------------------------------------------------------------------
(* autosage/server.py: the dispatcher *)

S_ngspice == <<"n","g","s","p","i","c","e">>
S_version == <<"v","e","r","s","i","o","n">>
S_smoketest == <<"s","m","o","k","e","t","e","s","t">>
S_validate_netlist == <<"v","a","l","i","d","a","t","e","_","n","e","t","l","i","s","t">>

KnownOps == {JStr(S_version), JStr(S_smoketest), JStr(S_validate_netlist)}

\* error_response(error_type, message, details)
error_response(error_type, message, details) ==
    [ok |-> FALSE,
     stdout |-> <<>>,
     stderr |-> <<>>,
     files |-> <<>>,
     metrics |-> [elapsed_ms |-> 0, exit_code |-> -1],
     error |-> ErrorObj(error_type, message, PyOr(details, EmptyDict))]

Return(env) == [kind |-> "return", env |-> env]
Raise(exc) == [kind |-> "raise", exc |-> exc]
Dispatch(op, netlist_text, limits) ==
    [kind |-> "call", op |-> op, netlist_text |-> netlist_text, limits |-> limits]

\* handle_run(payload) up to the call of the adapter: what it returns or
\* raises by itself, or the adapter call it makes
handle_run(body) ==
    IF ~IsDict(body)
    THEN Return(error_response("invalid_request", "Request body must be a JSON object.", JNull))
    ELSE
    LET tool == Get(body, "tool")
        op == Get(body, "op")
        inputs == PyOr(Get(body, "inputs"), EmptyDict)
        limits == PyOr(Get(body, "limits"), EmptyDict)
    IN  IF tool # JStr(S_ngspice)
        THEN Return(error_response("unknown_tool", "Unsupported tool.",
                                   JObj([k \in {"tool"} |-> tool])))
        ELSE IF ~Hashable(op)
        THEN Raise("TypeError")
        ELSE IF op \notin KnownOps
        THEN Return(error_response("unknown_op", "Unsupported operation.",
                                   JObj([k \in {"op"} |-> op])))
        ELSE IF ~IsDict(inputs)
        THEN Return(error_response("invalid_request", "inputs must be an object.", JNull))
        ELSE IF ~IsDict(limits)
        THEN Return(error_response("invalid_request", "limits must be an object.", JNull))
        ELSE IF op = JStr(S_version) THEN Dispatch("version", JNull, limits)
        ELSE IF op = JStr(S_smoketest) THEN Dispatch("smoketest", JNull, limits)
        ELSE Dispatch("validate_netlist", Get(inputs, "netlist_text"), limits)


---------------------------------------------------------------------------
(* autosage/runner.py *)

\* os.read(fd, 65536)
READ_SIZE == 65536
\* process.wait(timeout=0.5), in milliseconds
GRACE_MS == 500
\* selector.select(timeout=0.05), in milliseconds
SELECT_MS == 50

Streams == {"stdout", "stderr"}

TRUNC_STDOUT == <<"\n","[","s","t","d","o","u","t"," ","t","r","u","n","c","a","t","e","d","]">>
TRUNC_STDERR == <<"\n","[","s","t","d","e","r","r"," ","t","r","u","n","c","a","t","e","d","]">>

\* RunnerError(error_type, message, details)
RunnerError(error_type, message, details) ==
    [kind |-> "error", error_type |-> error_type, message |-> message,
     details |-> PyOr(details, EmptyDict)]

\* the 4-tuple run_process returns
RunnerTuple(stdout_text, stderr_text, exit_code, elapsed_ms) ==
    [kind |-> "tuple", stdout_text |-> stdout_text, stderr_text |-> stderr_text,
     exit_code |-> exit_code, elapsed_ms |-> elapsed_ms]

NoOutcome == [kind |-> "none"]

\* the argument checks letting zero through: `< 0` in place of `<= 0`
ArgumentErrorZeroAllowed(argv, timeout_ms, max_stdout_bytes, max_stderr_bytes) ==
    IF argv = <<>>
    THEN RunnerError("invalid_request", "argv must not be empty.", JNull)
    ELSE IF IntVal(timeout_ms) < 0
    THEN RunnerError("invalid_request", "timeout_ms must be > 0.", JNull)
    ELSE IF IntVal(max_stdout_bytes) < 0 \/ IntVal(max_stderr_bytes) < 0
    THEN RunnerError("invalid_request", "max stdout/stderr byte limits must be > 0.", JNull)
    ELSE NoOutcome

\* run_process's argument checks: the RunnerError raised, or NoOutcome
ArgumentError(argv, timeout_ms, max_stdout_bytes, max_stderr_bytes) ==
    IF argv = <<>>
    THEN RunnerError("invalid_request", "argv must not be empty.", JNull)
    ELSE IF IntVal(timeout_ms) <= 0
    THEN RunnerError("invalid_request", "timeout_ms must be > 0.", JNull)
    ELSE IF IntVal(max_stdout_bytes) <= 0 \/ IntVal(max_stderr_bytes) <= 0
    THEN RunnerError("invalid_request", "max stdout/stderr byte limits must be > 0.", JNull)
    ELSE NoOutcome

\* what subprocess.Popen does: the environment decides
PopenOutcomes == {"started", "FileNotFoundError", "OSError"}

\* the RunnerError a failed Popen is converted to
PopenError(argv, popen) ==
    IF popen = "FileNotFoundError"
    THEN RunnerError("process_not_found", "Executable not found", 
                     JObj([k \in {"argv0"} |-> JStr(<<argv[1]>>)]))
    ELSE RunnerError("process_start_failed", "OSError",
                     JObj([k \in {"argv"} |-> JStr(argv)]))

\* run_process up to the read loop: the error it raises, or NoOutcome when
\* the child is started
StartOutcome(argv, timeout_ms, max_stdout_bytes, max_stderr_bytes, popen) ==
    LET bad == ArgumentError(argv, timeout_ms, max_stdout_bytes, max_stderr_bytes)
    IN  IF bad # NoOutcome THEN bad
        ELSE IF popen # "started" THEN PopenError(argv, popen)
        ELSE NoOutcome

\* whether run_process reaches Popen
ReachesPopen(argv, timeout_ms, max_stdout_bytes, max_stderr_bytes) ==
    ArgumentError(argv, timeout_ms, max_stdout_bytes, max_stderr_bytes) = NoOutcome

IdleRp ==
    [pc |-> "none", argv |-> <<>>,
     timeout_ms |-> JNum(0), max_stdout_bytes |-> JNum(0), max_stderr_bytes |-> JNum(0),
     registered |-> {}, events |-> {},
     stdout_buf |-> <<>>, stderr_buf |-> <<>>,
     stdout_truncated |-> FALSE, stderr_truncated |-> FALSE,
     read |-> [stdout |-> <<>>, stderr |-> <<>>], eof |-> {},
     elapsed |-> 0, waited |-> 0]

\* run_process's locals on entry to the read loop
StartedRp(argv, timeout_ms, max_stdout_bytes, max_stderr_bytes) ==
    [pc |-> "loop", argv |-> argv,
     timeout_ms |-> timeout_ms,
     max_stdout_bytes |-> max_stdout_bytes, max_stderr_bytes |-> max_stderr_bytes,
     registered |-> Streams, events |-> {},
     stdout_buf |-> <<>>, stderr_buf |-> <<>>,
     stdout_truncated |-> FALSE, stderr_truncated |-> FALSE,
     read |-> [stdout |-> <<>>, stderr |-> <<>>], eof |-> {},
     elapsed |-> 0, waited |-> 0]

NoChild ==
    [state |-> "none", exit_code |-> 0, open |-> {},
     pipe |-> [stdout |-> <<>>, stderr |-> <<>>],
     written |-> [stdout |-> <<>>, stderr |-> <<>>],
     signalled |-> {}, writes |-> 0, wrote_files |-> FALSE, exited_at |-> -1]

\* a child just started: it holds the write ends of both pipes
NewChild ==
    [state |-> "running", exit_code |-> 0, open |-> Streams,
     pipe |-> [stdout |-> <<>>, stderr |-> <<>>],
     written |-> [stdout |-> <<>>, stderr |-> <<>>],
     signalled |-> {}, writes |-> 0, wrote_files |-> FALSE, exited_at |-> -1]

\* the streams select() reports: registered, and holding data or at end of file
Ready == {s \in rp.registered : child.pipe[s] # <<>> \/ s \notin child.open}

\* the capture step setting the flag as soon as a chunk fills the buffer
CaptureFlagOnFull(buf, truncated, cap, chunk) ==
    LET remaining == cap - Len(buf)
    IN  [buf |-> IF remaining > 0 THEN buf \o Take(chunk, remaining) ELSE buf,
         truncated |-> IF Len(chunk) >= remaining THEN TRUE ELSE truncated]

\* the capture step of the read loop for one non-empty chunk
Capture(buf, truncated, cap, chunk) ==
    LET remaining == cap - Len(buf)
    IN  [buf |-> IF remaining > 0 THEN buf \o Take(chunk, remaining) ELSE buf,
         truncated |-> IF Len(chunk) > remaining THEN TRUE ELSE truncated]

\* run_process's result after the loop, from the exit code collected by wait()
CompletedTuple(r, exit_code) ==
    RunnerTuple(
        Decode(r.stdout_buf) \o (IF r.stdout_truncated THEN TRUNC_STDOUT ELSE <<>>),
        Decode(r.stderr_buf) \o (IF r.stderr_truncated THEN TRUNC_STDERR ELSE <<>>),
        exit_code,
        r.elapsed)

\* the timeout branch going straight to SIGKILL
TerminateByKill(ch) ==
    IF ch.state = "running" THEN [ch EXCEPT !.signalled = @ \cup {"SIGKILL"}] ELSE ch

\* process.terminate(): SIGTERM, unless the child is known to have exited
Terminate(ch) ==
    IF ch.state = "running" THEN [ch EXCEPT !.signalled = @ \cup {"SIGTERM"}] ELSE ch

\* process.kill(): SIGKILL, unless the child is known to have exited
Kill(ch) ==
    IF ch.state = "running" THEN [ch EXCEPT !.signalled = @ \cup {"SIGKILL"}] ELSE ch

\* the RunnerError of the timeout branch
TimeoutError(r) ==
    RunnerError("timeout", "Process exceeded timeout.",
                JObj([k \in {"timeout_ms"} |-> r.timeout_ms]))


---------------------------------------------------------------------------
(* autosage/tools/ngspice.py: the three operations *)

N_smoke_cir == <<"s","m","o","k","e",".","c","i","r">>
N_smoke_raw == <<"s","m","o","k","e",".","r","a","w">>
N_smoke_log == <<"s","m","o","k","e",".","l","o","g">>
N_input_cir == <<"i","n","p","u","t",".","c","i","r">>
N_validate_log == <<"v","a","l","i","d","a","t","e",".","l","o","g">>

\* the netlist smoketest writes to smoke.cir
SMOKE_NETLIST ==
    <<"*"," ","n","g","s","p","i","c","e"," ","s","m","o","k","e"," ","t","e","s","t","\n","V","1"," ","i","n"," ","0"," ","D","C"," ","1","\n","R","1"," ","i","n"," ","o","u","t"," ","1","k","\n","C","1"," ","o","u","t"," ","0"," ","1","u","\n",".","t","r","a","n"," ","1","u"," ","1","m","\n",".","e","n","d","\n">>

File(name, data) == [name |-> name, kind |-> "file", data |-> data]
Directory(name) == [name |-> name, kind |-> "dir", data |-> <<>>]

\* str.encode("utf-8") as Path.write_text does it: a lone surrogate cannot be
\* encoded (UnicodeEncodeError), every other character of the model is ASCII
Encodable(text) == \A i \in 1..Len(text) : text[i] # "uD800"

\* the argument vector of an operation's n-th runner invocation
OpArgv(op, invocation) ==
    CASE op = "version" ->
            IF invocation = 1 THEN <<"ngspice", "-v">> ELSE <<"ngspice", "-V">>
      [] op = "smoketest" ->
            <<"ngspice", "-b", "-r", "smoke.raw", "-o", "smoke.log", "smoke.cir">>
      [] op = "validate_netlist" ->
            <<"ngspice", "-b", "-o", "validate.log", "input.cir">>

\* the precondition without strip(): whitespace-only text is let through
NetlistRejectedUnstripped(netlist_text) == ~IsStr(netlist_text) \/ netlist_text.s = <<>>

\* validate_netlist's precondition on netlist_text
NetlistRejected(netlist_text) == ~IsStr(netlist_text) \/ Strip(netlist_text.s) = <<>>

\* an operation up to its first run_process call: what it returns or raises
\* by itself, or the file it writes before running ngspice
OpPrefix(op, netlist_text) ==
    CASE op = "version" -> [kind |-> "run", writes |-> {}]
      [] op = "smoketest" -> [kind |-> "run", writes |-> {File(N_smoke_cir, SMOKE_NETLIST)}]
      [] op = "validate_netlist" ->
            IF NetlistRejected(netlist_text)
            THEN Return(_error_response("invalid_input",
                                        "netlist_text must be a non-empty string.", EmptyDict))
            ELSE IF ~Encodable(netlist_text.s) THEN Raise("UnicodeEncodeError")
            ELSE [kind |-> "run", writes |-> {File(N_input_cir, netlist_text.s)}]

\* log_path.read_text(...) if log_path.exists() else ""
ReadLog(dir) ==
    IF \E e \in dir : e.name = N_validate_log
    THEN Decode((CHOOSE e \in dir : e.name = N_validate_log).data)
    ELSE <<>>

ProcessFailed(message) == ErrorObj("process_failed", message, EmptyDict)

\* version() with the fallback condition inverted: "-V" after a successful "-v"
VersionAfterRunInverted(invocation, out) ==
    IF invocation = 1 /\ out.exit_code = 0 THEN [kind |-> "rerun"]
    ELSE LET ok == out.exit_code = 0
         IN  Return(_response(ok, out.stdout_text, out.stderr_text, <<>>,
                              out.elapsed_ms, out.exit_code,
                              IF ok THEN JNull
                              ELSE ProcessFailed("ngspice version command failed.")))

\* version() after a run_process call that returned `out`
VersionAfterRun(invocation, out) ==
    IF invocation = 1 /\ out.exit_code # 0 THEN [kind |-> "rerun"]
    ELSE LET ok == out.exit_code = 0
         IN  Return(_response(ok, out.stdout_text, out.stderr_text, <<>>,
                              out.elapsed_ms, out.exit_code,
                              IF ok THEN JNull
                              ELSE ProcessFailed("ngspice version command failed.")))

\* smoketest() setting the error from the exit code alone
SmoketestAfterRunErrorByExit(cfg, out, dir) ==
    LET files == _collect_files(dir, IntVal(cfg.max_file_bytes))
        ok == out.exit_code = 0 /\ Len(files) > 0
    IN  Return(_response(ok, out.stdout_text, out.stderr_text, files,
                         out.elapsed_ms, out.exit_code,
                         IF out.exit_code = 0 THEN JNull
                         ELSE ProcessFailed("ngspice smoketest failed.")))

\* smoketest() taking the exit code alone for its verdict
SmoketestAfterRunOkByExit(cfg, out, dir) ==
    LET files == _collect_files(dir, IntVal(cfg.max_file_bytes))
        ok == out.exit_code = 0
    IN  Return(_response(ok, out.stdout_text, out.stderr_text, files,
                         out.elapsed_ms, out.exit_code,
                         IF ok THEN JNull ELSE ProcessFailed("ngspice smoketest failed.")))

\* smoketest() after run_process returned `out`
SmoketestAfterRun(cfg, out, dir) ==
    LET files == _collect_files(dir, IntVal(cfg.max_file_bytes))
        ok == out.exit_code = 0 /\ Len(files) > 0
    IN  Return(_response(ok, out.stdout_text, out.stderr_text, files,
                         out.elapsed_ms, out.exit_code,
                         IF ok THEN JNull ELSE ProcessFailed("ngspice smoketest failed.")))

\* validate_netlist() collecting the files only when the validation succeeded
ValidateAfterRunFilesOnSuccess(cfg, out, dir) ==
    LET log_text == ReadLog(dir)
        ok == (out.exit_code = 0) /\ ~_log_has_errors(log_text)
        details ==
            IF log_text # <<>>
            THEN JObj([k \in {"exit_code", "log_excerpt"} |->
                        IF k = "exit_code" THEN JNum(out.exit_code)
                        ELSE JStr(_log_relevant_excerpt(log_text, LIMIT_LINES))])
            ELSE JObj([k \in {"exit_code"} |-> JNum(out.exit_code)])
    IN  Return(_response(ok, out.stdout_text, out.stderr_text,
                         IF ok THEN _collect_files(dir, IntVal(cfg.max_file_bytes)) ELSE <<>>,
                         out.elapsed_ms, out.exit_code,
                         IF ok THEN JNull
                         ELSE ErrorObj("validation_failed",
                                       "ngspice reported validation errors.", details)))

\* validate_netlist() after run_process returned `out`
ValidateAfterRun(cfg, out, dir) ==
    LET log_text == ReadLog(dir)
        has_log_errors == _log_has_errors(log_text)
        ok == (out.exit_code = 0) /\ ~has_log_errors
        files == _collect_files(dir, IntVal(cfg.max_file_bytes))
        details ==
            IF log_text # <<>>
            THEN JObj([k \in {"exit_code", "log_excerpt"} |->
                        IF k = "exit_code" THEN JNum(out.exit_code)
                        ELSE JStr(_log_relevant_excerpt(log_text, LIMIT_LINES))])
            ELSE JObj([k \in {"exit_code"} |-> JNum(out.exit_code)])
    IN  Return(_response(ok, out.stdout_text, out.stderr_text, files,
                         out.elapsed_ms, out.exit_code,
                         IF ok THEN JNull
                         ELSE ErrorObj("validation_failed",
                                       "ngspice reported validation errors.", details)))

\* the except clause dropping the RunnerError's details
AfterRunDetailsDropped(c, out, dir) ==
    IF out.kind = "error"
    THEN Return(_error_response(out.error_type, out.message, JNull))
    ELSE CASE c.op = "version" -> VersionAfterRun(c.invocation, out)
           [] c.op = "smoketest" -> SmoketestAfterRun(c.cfg, out, dir)
           [] c.op = "validate_netlist" -> ValidateAfterRun(c.cfg, out, dir)

\* what an operation does once its runner invocation has ended with `out`
\* (a 4-tuple or a RunnerError): the envelope it returns, or a second run
AfterRun(c, out, dir) ==
    IF out.kind = "error"
    THEN Return(_error_response(out.error_type, out.message, out.details))
    ELSE CASE c.op = "version" -> VersionAfterRun(c.invocation, out)
           [] c.op = "smoketest" -> SmoketestAfterRun(c.cfg, out, dir)
           [] c.op = "validate_netlist" -> ValidateAfterRun(c.cfg, out, dir)


---------------------------------------------------------------------------
(* Inputs *)

Absent == [t |-> "absent"]

S_spice_wrong == <<"s","p","i","c","e","-","w","r","o","n","g">>
S_bogus == <<"b","o","g","u","s">>
S_netlist == <<"R","1"," ","a"," ","0"," ","1","\n">>

\* a JSON object from the members that are present
MkObj(keys, val(_)) == JObj([k \in {x \in keys : val(x) # Absent} |-> val(k)])

NetlistVals ==
    {JNull, JNum(5), JArr(<<>>), JStr(<<>>), JStr(<<" ", "\n">>),
     JStr(S_netlist), JStr(<<"R", "uD800">>)}

\* limits objects: overrides that make the timeout and the caps bite, an
\* override the runner rejects, and values _build_limits must ignore
LimitDicts ==
    {EmptyDict,
     JObj([k \in {"timeout_ms", "max_stdout_bytes", "max_stderr_bytes", "max_file_bytes"} |->
            CASE k = "timeout_ms" -> JNum(50)
              [] k = "max_stdout_bytes" -> JNum(1)
              [] k = "max_stderr_bytes" -> JBool(TRUE)
              [] k = "max_file_bytes" -> JNum(2)]),
     JObj([k \in {"timeout_ms"} |-> JNum(0)]),
     JObj([k \in {"timeout_ms", "max_file_bytes", "bogus"} |->
            CASE k = "timeout_ms" -> JFloat(15)
              [] k = "max_file_bytes" -> JStr(<<"2">>)
              [] k = "bogus" -> JNum(1)])}

ToolVals == {Absent, JNull, JStr(S_ngspice), JStr(S_spice_wrong), JNum(1), JArr(<<>>)}

OpVals ==
    {Absent, JNull, JBool(TRUE), JNum(0), JStr(S_bogus), JArr(<<>>), EmptyDict}
    \cup KnownOps

InputVals ==
    {Absent, JNull, JBool(FALSE), JNum(0), JNum(1), JStr(<<>>), JStr(<<"x">>),
     JArr(<<>>), JArr(<<JNum(1)>>), EmptyDict}
    \cup {JObj([k \in {"netlist_text"} |-> n]) : n \in NetlistVals}

LimitVals ==
    {Absent, JNull, JBool(TRUE), JNum(0), JStr(<<>>), JStr(<<"x">>),
     JArr(<<>>), JArr(<<JNum(1)>>)}
    \cup LimitDicts

\* decoded JSON request bodies
Payloads ==
    {JNull, JBool(TRUE), JNum(1), JStr(S_ngspice), JArr(<<>>)}
    \cup {MkObj({"tool", "op", "inputs", "limits"},
                LAMBDA k : CASE k = "tool" -> tl [] k = "op" -> o
                             [] k = "inputs" -> i [] k = "limits" -> l) :
            tl \in ToolVals, o \in OpVals, i \in InputVals, l \in LimitVals}

\* limits of a direct call of an operation: None or a dict
DirectLimits == {JNull} \cup LimitDicts

\* netlist_text of a direct call of validate_netlist
DirectNetlists == NetlistVals \ {JStr(S_netlist)}

\* direct calls of run_process
RunnerArgvs == {<<>>, <<"python", "-c", "child">>}
RunnerTimeouts == {0, 100}
RunnerCaps == {0, 1}

\* what the child of an argument vector may leave in the working directory
L_ok == <<"o","k","\n">>
L_error == <<"E","R","r","o","r",":">>
L_fatal == <<"w","\n","F","a","t","a","l","\n","x">>
L_clean == <<"e","r","r","o","r"," ",":","\n">>
N_OUT_RAW == <<"O","U","T",".","R","A","W">>
N_sub_txt == <<"s","u","b",".","t","x","t">>

ChildFileSets(argv) ==
    IF argv = OpArgv("smoketest", 1)
    THEN {{File(N_smoke_log, L_ok), File(N_smoke_raw, <<"xC3", "xA9", "a">>)},
          {File(N_smoke_raw, <<"xC3", "xA9", "a">>)}}
    ELSE IF argv = OpArgv("validate_netlist", 1)
    THEN {{File(N_validate_log, <<>>)},
          {File(N_validate_log, L_ok)},
          {File(N_validate_log, L_error), File(N_OUT_RAW, <<"a">>), Directory(N_sub_txt)},
          {File(N_validate_log, L_fatal)},
          {File(N_validate_log, L_clean)}}
    ELSE {}

\* chunks the child writes to a stream in one write
Chunks(stream) ==
    IF stream = "stdout" THEN {<<"a">>, <<"xC3", "xA9">>} ELSE {<<"e", "e">>}

ExitCodes == {0, 1}

---------------------------------------------------------------------------
(* The state machine *)

IdleCall ==
    [status |-> "idle", entry |-> "none", op |-> "none", invocation |-> 0,
     netlist_text |-> JNull, limits |-> JNull, cfg |-> InitialDefaultLimits,
     argv |-> <<>>]

NoResult == [kind |-> "none"]
NoHist == [runs |-> <<>>, wrote |-> {}, tmpdirs |-> 0, final_dir |-> {}, cancel |-> <<>>]

Init ==
    /\ call = IdleCall
    /\ payload = JNull
    /\ result = NoResult
    /\ rp = IdleRp
    /\ child = NoChild
    /\ workdir = {}
    /\ default_limits = InitialDefaultLimits
    /\ hist = NoHist

\* the outermost call ends with `res`, the child left as `ch`; the temporary
\* directory, holding `dir`, is removed
Conclude(c, h, res, ch, dir) ==
    /\ call' = [c EXCEPT !.status = "done"]
    /\ result' = res
    /\ rp' = IdleRp
    /\ child' = ch
    /\ workdir' = {}
    /\ hist' = [h EXCEPT !.final_dir = dir]

\* the argument vector of c's next run_process call
RunArgv(c) == IF c.op = "run_process" THEN c.argv ELSE OpArgv(c.op, c.invocation)

\* what the caller of run_process makes of its outcome `out`
CallerOutcome(c, out, dir) ==
    IF c.op = "run_process" THEN out ELSE AfterRun(c, out, dir)

\* c calls run_process: the child is started and the read loop entered, or
\* the call fails and the caller handles the error; `ch` is the child of the
\* call's previous run_process call, if any
Launch(c, dir, h, popen, ch) ==
    LET argv == RunArgv(c)
        so == StartOutcome(argv, c.cfg.timeout_ms, c.cfg.max_stdout_bytes,
                           c.cfg.max_stderr_bytes, popen)
        run == [argv |-> argv,
                popen |-> ReachesPopen(argv, c.cfg.timeout_ms, c.cfg.max_stdout_bytes,
                                       c.cfg.max_stderr_bytes),
                started |-> so = NoOutcome,
                overlaps |-> so = NoOutcome /\ ch.state = "running",
                outcome |-> so]
        h1 == [h EXCEPT !.runs = Append(@, run)]
    IN  IF so = NoOutcome
        THEN /\ call' = [c EXCEPT !.status = "running"]
             /\ rp' = StartedRp(argv, c.cfg.timeout_ms, c.cfg.max_stdout_bytes,
                                c.cfg.max_stderr_bytes)
             /\ child' = NewChild
             /\ workdir' = dir
             /\ hist' = h1
             /\ UNCHANGED result
        ELSE Conclude(c, h1, CallerOutcome(c, so, dir), ch, dir)

\* what the history keeps of an outcome that its caller has replaced by a
\* second run: that a 4-tuple was returned, and its exit code
Superseded(out) == [kind |-> "tuple", exit_code |-> out.exit_code]

\* run_process ends with `out`, its child left as `ch`; its caller carries on
\* to its own end, or to version's second run_process call
Finish(out, popen, ch, h) ==
    LET h1 == [h EXCEPT !.runs[Len(h.runs)].outcome = out]
        plan == CallerOutcome(call, out, workdir)
    IN  IF call.op # "run_process" /\ plan.kind = "rerun"
        THEN Launch([call EXCEPT !.invocation = 2], workdir,
                    [h EXCEPT !.runs[Len(h.runs)].outcome = Superseded(out)],
                    popen, ch)
        ELSE Conclude(call, h1, plan, ch, workdir)

(* Calls *)

\* POST /run: handle_run(payload) up to the adapter call
HandleRunCall(body) ==
    /\ call.status = "idle"
    /\ LET plan == handle_run(body)
       IN  /\ payload' = body
           /\ IF plan.kind = "call"
              THEN /\ call' = [IdleCall EXCEPT !.status = "dispatched",
                                               !.entry = "handle_run",
                                               !.op = plan.op,
                                               !.netlist_text = plan.netlist_text,
                                               !.limits = plan.limits]
                   /\ UNCHANGED result
              ELSE /\ call' = [IdleCall EXCEPT !.status = "done", !.entry = "handle_run"]
                   /\ result' = plan
    /\ UNCHANGED <<rp, child, workdir, default_limits, hist>>

\* a direct call ngspice.validate_netlist(netlist_text, limits)
ValidateCall(netlist_text, limits) ==
    /\ call.status = "idle"
    /\ call' = [IdleCall EXCEPT !.status = "dispatched",
                                !.entry = "validate_netlist",
                                !.op = "validate_netlist",
                                !.netlist_text = netlist_text,
                                !.limits = limits]
    /\ UNCHANGED <<payload, result, rp, child, workdir, default_limits, hist>>

\* version(), smoketest() or validate_netlist() from its first line to its
\* return, or to the start of the child of its first run_process call
OperationEnter(popen) ==
    /\ call.status = "dispatched"
    /\ call.op # "run_process"
    /\ payload' = JNull
    /\ LET built == _build_limits(default_limits, call.limits)
           \* once the limits are merged the operation does not read them again
           c == [call EXCEPT !.cfg = built.merged, !.invocation = 1, !.limits = JNull]
           plan == OpPrefix(call.op, call.netlist_text)
       IN  /\ default_limits' = built.defaults
           /\ IF plan.kind = "run"
              THEN Launch(c, plan.writes,
                          [hist EXCEPT !.wrote = {e.name : e \in plan.writes},
                                       !.tmpdirs = 1],
                          popen, child)
              ELSE Conclude([call EXCEPT !.cfg = built.merged],
                            [hist EXCEPT !.tmpdirs = IF plan.kind = "raise" THEN 1 ELSE 0],
                            plan, child, {})

\* a direct call run_process(argv, cwd, timeout_ms, max_stdout_bytes, max_stderr_bytes)
RunProcessCall(argv, timeout_ms, max_stdout_bytes, max_stderr_bytes, popen) ==
    /\ call.status = "idle"
    /\ Launch([IdleCall EXCEPT !.entry = "run_process", !.op = "run_process",
                               !.argv = argv, !.invocation = 1,
                               !.cfg = [InitialDefaultLimits EXCEPT
                                          !.timeout_ms = JNum(timeout_ms),
                                          !.max_stdout_bytes = JNum(max_stdout_bytes),
                                          !.max_stderr_bytes = JNum(max_stderr_bytes)]],
              {}, hist, popen, child)
    /\ UNCHANGED <<payload, default_limits>>

\* the caller has its answer; the next call starts from a fresh state
NextCall ==
    /\ call.status = "done"
    /\ call' = IdleCall
    /\ payload' = JNull
    /\ result' = NoResult
    /\ rp' = IdleRp
    /\ child' = NoChild
    /\ workdir' = {}
    /\ hist' = NoHist
    /\ UNCHANGED default_limits


(* run_process: the read loop *)

InLoop == call.status = "running"

\* lines 60-72: the loop condition and the timeout check
LoopTop ==
    /\ InLoop /\ rp.pc = "loop"
    /\ IF rp.registered = {}
       THEN /\ rp' = [rp EXCEPT !.pc = "wait"]
            /\ UNCHANGED <<child, hist>>
       ELSE IF rp.elapsed >= IntVal(rp.timeout_ms)
       THEN /\ rp' = [rp EXCEPT !.pc = "grace"]
            /\ child' = Terminate(child)
            /\ hist' = [hist EXCEPT !.cancel = Append(@, "terminate")]
       ELSE /\ rp' = [rp EXCEPT !.pc = "select", !.waited = 0]
            /\ UNCHANGED <<child, hist>>
    /\ UNCHANGED <<call, payload, result, workdir, default_limits>>

\* line 74: select() returns the ready streams
SelectReady ==
    /\ InLoop /\ rp.pc = "select"
    /\ Ready # {}
    /\ rp' = [rp EXCEPT !.pc = "read", !.events = Ready, !.waited = 0]
    /\ UNCHANGED <<call, payload, result, child, workdir, default_limits, hist>>

\* line 74: select() returns nothing after its timeout
SelectTimeout ==
    /\ InLoop /\ rp.pc = "select"
    /\ Ready = {}
    /\ rp.waited >= SELECT_MS
    /\ rp' = [rp EXCEPT !.pc = "poll", !.events = {}, !.waited = 0]
    /\ UNCHANGED <<call, payload, result, child, workdir, default_limits, hist>>

\* line 75: with no events, process.poll() decides whether the loop ends
Poll ==
    /\ InLoop /\ rp.pc = "poll"
    /\ rp' = [rp EXCEPT !.pc = IF child.state = "exited" THEN "wait" ELSE "loop"]
    /\ UNCHANGED <<call, payload, result, child, workdir, default_limits, hist>>

\* lines 78-103: one iteration of the loop over the events
ReadEvent(stream) ==
    /\ InLoop /\ rp.pc = "read"
    /\ stream \in rp.events
    /\ LET chunk == Take(child.pipe[stream], READ_SIZE)
           left == rp.events \ {stream}
           next_pc == IF left = {} THEN "loop" ELSE "read"
           out == Capture(rp.stdout_buf, rp.stdout_truncated,
                          IntVal(rp.max_stdout_bytes), chunk)
           err == Capture(rp.stderr_buf, rp.stderr_truncated,
                          IntVal(rp.max_stderr_bytes), chunk)
       IN  /\ child' = [child EXCEPT !.pipe[stream] = Drop(@, READ_SIZE)]
           /\ rp' = IF chunk = <<>>
                    THEN [rp EXCEPT !.registered = @ \ {stream},
                                    !.eof = @ \cup {stream},
                                    !.events = left, !.pc = next_pc]
                    ELSE IF stream = "stdout"
                    THEN [rp EXCEPT !.stdout_buf = out.buf,
                                    !.stdout_truncated = out.truncated,
                                    !.read[stream] = @ \o chunk,
                                    !.events = left, !.pc = next_pc]
                    ELSE [rp EXCEPT !.stderr_buf = err.buf,
                                    !.stderr_truncated = err.truncated,
                                    !.read[stream] = @ \o chunk,
                                    !.events = left, !.pc = next_pc]
    /\ UNCHANGED <<call, payload, result, workdir, default_limits, hist>>

\* line 65 returns: the child exited within the 0.5 s after terminate()
GraceExit(popen) ==
    /\ InLoop /\ rp.pc = "grace"
    /\ child.state = "exited"
    /\ Finish(TimeoutError(rp), popen, child,
              [hist EXCEPT !.cancel = Append(@, "wait_returned")])
    /\ UNCHANGED <<payload, default_limits>>

\* line 66: the 0.5 s pass with the child still running: TimeoutExpired
GraceExpire ==
    /\ InLoop /\ rp.pc = "grace"
    /\ child.state = "running"
    /\ rp' = [rp EXCEPT !.pc = "kill"]
    /\ hist' = [hist EXCEPT !.cancel = Append(@, "wait_expired")]
    /\ UNCHANGED <<call, payload, result, child, workdir, default_limits>>

\* lines 67-72: process.kill(), then the timeout error is raised at once,
\* without waiting for the child to die
KillChild(popen) ==
    /\ InLoop /\ rp.pc = "kill"
    /\ Finish(TimeoutError(rp), popen, Kill(child),
              [hist EXCEPT !.cancel = Append(@, "kill")])
    /\ UNCHANGED <<payload, default_limits>>

\* lines 105-114: wait() returns once the child has exited
Wait(popen) ==
    /\ InLoop /\ rp.pc = "wait"
    /\ child.state = "exited"
    /\ Finish(CompletedTuple(rp, child.exit_code), popen, child, hist)
    /\ UNCHANGED <<payload, default_limits>>

\* the monotonic clock advances; the runner reads it at the top of the loop,
\* while select() blocks and after wait(), so time that passes elsewhere is
\* time that passes before the next of these
Tick ==
    /\ InLoop
    /\ rp.pc \in {"loop", "select", "wait"}
    /\ rp.elapsed < MaxTicks * SELECT_MS
    /\ rp' = [rp EXCEPT !.elapsed = @ + SELECT_MS,
                        !.waited = IF rp.pc = "select" THEN SELECT_MS ELSE @]
    /\ UNCHANGED <<call, payload, result, child, workdir, default_limits, hist>>

(* The child process *)

ChildRuns == InLoop /\ child.state = "running"

ChildWrite(stream, chunk) ==
    /\ ChildRuns
    /\ stream \in child.open
    /\ child.writes < (IF call.op = "run_process" THEN MaxWrites ELSE MaxOpWrites)
    /\ child' = [child EXCEPT !.pipe[stream] = @ \o chunk,
                              !.written[stream] = @ \o chunk,
                              !.writes = @ + 1]
    /\ UNCHANGED <<call, payload, result, rp, workdir, default_limits, hist>>

\* the child closes one of its output streams and keeps running
ChildClose(stream) ==
    /\ ChildRuns
    /\ stream \in child.open
    /\ child' = [child EXCEPT !.open = @ \ {stream}]
    /\ UNCHANGED <<call, payload, result, rp, workdir, default_limits, hist>>

\* the child writes its output files
ChildWriteFiles(files) ==
    /\ ChildRuns
    /\ ~child.wrote_files
    /\ child' = [child EXCEPT !.wrote_files = TRUE]
    /\ workdir' = workdir \cup files
    /\ UNCHANGED <<call, payload, result, rp, default_limits, hist>>

\* the child exits by itself; its ends of the pipes are closed
ChildExit(code) ==
    /\ ChildRuns
    /\ child' = [child EXCEPT !.state = "exited", !.exit_code = code, !.open = {},
                              !.exited_at = rp.elapsed]
    /\ UNCHANGED <<call, payload, result, rp, workdir, default_limits, hist>>

\* the child dies of the terminate request
ChildTerminated ==
    /\ ChildRuns
    /\ "SIGTERM" \in child.signalled
    /\ child' = [child EXCEPT !.state = "exited", !.exit_code = -15, !.open = {},
                              !.exited_at = rp.elapsed]
    /\ UNCHANGED <<call, payload, result, rp, workdir, default_limits, hist>>

\* the child dies of SIGKILL, some time after kill() was called: by then
\* run_process has raised, the grace wait having passed
ChildKilled ==
    /\ child.state = "running"
    /\ "SIGKILL" \in child.signalled
    /\ child' = [child EXCEPT !.state = "exited", !.exit_code = -9, !.open = {},
                              !.exited_at = IntVal(call.cfg.timeout_ms) + GRACE_MS]
    /\ UNCHANGED <<call, payload, result, rp, workdir, default_limits, hist>>

\* the steps of run_process's read loop and of its child
RunnerNext ==
    \/ LoopTop
    \/ SelectReady
    \/ SelectTimeout
    \/ Poll
    \/ \E stream \in Streams : ReadEvent(stream)
    \/ \E popen \in PopenOutcomes : GraceExit(popen)
    \/ GraceExpire
    \/ \E popen \in PopenOutcomes : KillChild(popen)
    \/ \E popen \in PopenOutcomes : Wait(popen)
    \/ Tick
    \/ \E stream \in Streams : \E chunk \in Chunks(stream) : ChildWrite(stream, chunk)
    \/ \E stream \in Streams : ChildClose(stream)
    \/ \E code \in ExitCodes : ChildExit(code)
    \/ ChildTerminated
    \/ ChildKilled

\* requests to the dispatcher and direct calls of validate_netlist
Next ==
    \/ \E body \in Payloads : HandleRunCall(body)
    \/ \E n \in DirectNetlists, l \in DirectLimits : ValidateCall(n, l)
    \/ \E popen \in PopenOutcomes : OperationEnter(popen)
    \/ \E files \in ChildFileSets(rp.argv) : ChildWriteFiles(files)
    \/ NextCall
    \/ RunnerNext

Spec == Init /\ [][Next]_vars

\* direct calls of run_process
NextRunner ==
    \/ \E argv \in RunnerArgvs, t \in RunnerTimeouts, mo \in RunnerCaps, me \in RunnerCaps,
          popen \in PopenOutcomes : RunProcessCall(argv, t, mo, me, popen)
    \/ NextCall
    \/ RunnerNext

SpecRunner == Init /\ [][NextRunner]_vars


---------------------------------------------------------------------------
(* Properties *)

Done == call.status = "done"
RunnerCall == call.op = "run_process"
Returned == Done /\ result.kind = "return"
LastRun == hist.runs[Len(hist.runs)]
DoneAfterRun(op) == Done /\ call.op = op /\ hist.runs # <<>>

\* C1: a child still running when the elapsed time reaches timeout_ms makes
\* run_process raise "timeout": the runner is never blocked in the final
\* wait(), which has no timeout, on a running child whose time is up
C1_TimeoutEnforced ==
    ~(call.status = "running" /\ rp.pc = "wait" /\ child.state = "running"
      /\ rp.elapsed >= IntVal(rp.timeout_ms))

\* what C2 expects of a stream: the first `cap` bytes, decoded, and the marker
\* if more were written
ExpectedText(bytes, cap, marker) ==
    IF Len(bytes) > cap THEN Decode(SubSeq(bytes, 1, cap)) \o marker ELSE Decode(bytes)

\* C2: when run_process returns, stdout is the first max_stdout_bytes bytes
\* the child wrote followed by "\n[stdout truncated]" if it wrote more, and
\* all its bytes without the suffix otherwise; likewise stderr
C2_TruncatedOutput ==
    (Done /\ RunnerCall /\ result.kind = "tuple") =>
        /\ result.stdout_text =
             ExpectedText(child.written.stdout, IntVal(call.cfg.max_stdout_bytes), TRUNC_STDOUT)
        /\ result.stderr_text =
             ExpectedText(child.written.stderr, IntVal(call.cfg.max_stderr_bytes), TRUNC_STDERR)

\* C3: in every envelope returned, error is non-null iff ok is false
C3_ErrorIffNotOk ==
    Returned => ((result.env.error # JNull) <=> (result.env.ok = FALSE))

C3_Witness ==
    /\ Returned /\ call.op = "validate_netlist" /\ hist.runs # <<>>
    /\ LastRun.outcome.kind = "tuple"
    /\ ~result.env.ok
    /\ result.env.error # JNull

\* C4: handle_run returns an envelope for every decoded JSON body; no
\* exception reaches the HTTP layer
C4_NeverRaises ==
    (Done /\ call.entry = "handle_run") => result.kind = "return"

\* C5: for an object payload, a tool other than "ngspice" yields unknown_tool
\* and an op other than the three known ones yields unknown_op, and in both
\* cases no adapter operation is invoked and no process is started
C5_UnknownToolOrOp ==
    /\ (call.entry = "handle_run" /\ call.status \in {"dispatched", "running"}) =>
          (payload # JNull =>
              /\ Get(payload, "tool") = JStr(S_ngspice)
              /\ Get(payload, "op") \in KnownOps)
    /\ (Done /\ call.entry = "handle_run" /\ payload # JNull /\ IsDict(payload)) =>
          LET tool == Get(payload, "tool")
              op == Get(payload, "op")
              unknown(type) ==
                  /\ result.kind = "return"
                  /\ ~result.env.ok
                  /\ result.env.error.type = type
                  /\ hist.runs = <<>> /\ hist.tmpdirs = 0
          IN  /\ (tool # JStr(S_ngspice)) => unknown("unknown_tool")
              /\ (tool = JStr(S_ngspice) /\ op \notin KnownOps) => unknown("unknown_op")

V_argv == <<"ngspice", "-v">>
V_argv_fallback == <<"ngspice", "-V">>

\* C6: version() runs "ngspice -v" first and "ngspice -V" once iff the first
\* run completed with a non-zero exit code, never more than two runs, and the
\* envelope is made of the last run's results alone
C6_VersionFallback ==
    (call.op = "version") =>
        /\ Len(hist.runs) <= 2
        /\ Len(hist.runs) >= 1 => hist.runs[1].argv = V_argv
        /\ Len(hist.runs) = 2 =>
              /\ hist.runs[2].argv = V_argv_fallback
              /\ hist.runs[2].popen
              /\ hist.runs[1].outcome.kind = "tuple"
              /\ hist.runs[1].outcome.exit_code # 0
        /\ (Done /\ Len(hist.runs) = 1) =>
              ~(hist.runs[1].outcome.kind = "tuple" /\ hist.runs[1].outcome.exit_code # 0)
        /\ (Done /\ hist.runs # <<>> /\ LastRun.outcome.kind = "tuple") =>
              /\ result.kind = "return"
              /\ result.env.ok = (LastRun.outcome.exit_code = 0)
              /\ result.env.stdout = LastRun.outcome.stdout_text
              /\ result.env.stderr = LastRun.outcome.stderr_text
              /\ result.env.metrics.exit_code = LastRun.outcome.exit_code
              /\ result.env.metrics.elapsed_ms = LastRun.outcome.elapsed_ms
              /\ result.env.files = <<>>
              /\ (~result.env.ok) => result.env.error.type = "process_failed"

C6_Witness ==
    /\ Returned /\ call.op = "version" /\ Len(hist.runs) = 2
    /\ LastRun.outcome.kind = "tuple"
    /\ LastRun.outcome.exit_code = 0
    /\ result.env.ok
    /\ result.env.stdout # <<>>

\* C7: a RunnerError from any runner invocation of version, smoketest or
\* validate_netlist becomes an envelope with ok false, empty stdout, stderr
\* and files, metrics {elapsed_ms: 0, exit_code: -1} and the error's type,
\* message and details
C7_RunnerErrorEnvelope ==
    (Done /\ call.op \in {"version", "smoketest", "validate_netlist"}
          /\ hist.runs # <<>> /\ LastRun.outcome.kind = "error") =>
        /\ result.kind = "return"
        /\ result.env.ok = FALSE
        /\ result.env.stdout = <<>>
        /\ result.env.stderr = <<>>
        /\ result.env.files = <<>>
        /\ result.env.metrics = [elapsed_ms |-> 0, exit_code |-> -1]
        /\ result.env.error.type = LastRun.outcome.error_type
        /\ result.env.error.message = LastRun.outcome.message
        /\ result.env.error.details = LastRun.outcome.details

\* the second run of version() times out after the first wrote output
C7_Witness ==
    /\ Returned /\ call.op = "version" /\ Len(hist.runs) = 2
    /\ LastRun.outcome.kind = "error"
    /\ LastRun.outcome.error_type = "timeout"
    /\ result.env.error.type = "timeout"
    /\ result.env.error.details = JObj([k \in {"timeout_ms"} |-> JNum(50)])

\* netlist_text that is absent, not a string, empty or made of whitespace
BlankNetlist(v) ==
    \/ v.t # "str"
    \/ \A i \in 1..Len(v.s) : v.s[i] \in {" ", "\n", "\r", "\t"}

\* C8: validate_netlist with a blank netlist_text returns invalid_input with
\* metrics {elapsed_ms: 0, exit_code: -1}, starts no process and writes no
\* file, whatever the limits, also when it is reached through handle_run
C8_BlankNetlistRejected ==
    (Done /\ call.op = "validate_netlist" /\ BlankNetlist(call.netlist_text)) =>
        /\ result.kind = "return"
        /\ result.env.ok = FALSE
        /\ result.env.error.type = "invalid_input"
        /\ result.env.metrics = [elapsed_ms |-> 0, exit_code |-> -1]
        /\ hist.runs = <<>>
        /\ hist.wrote = {}
        /\ hist.tmpdirs = 0

\* whitespace-only text, through handle_run, with limits the runner rejects
C8_Witness ==
    /\ Returned /\ call.op = "validate_netlist" /\ call.entry = "handle_run"
    /\ call.netlist_text = JStr(<<" ", "\n">>)
    /\ call.limits = JObj([k \in {"timeout_ms"} |-> JNum(0)])
    /\ result.env.error.type = "invalid_input"

\* the log text reports an error: "error:" or "fatal" occurs in it, in any case
LogReportsError(text) ==
    \E i \in 1..Len(text), n \in {5, 6} :
        /\ i + n - 1 <= Len(text)
        /\ Lower(SubSeq(text, i, i + n - 1)) \in {S_error, S_fatal}

\* the text of validate.log when validate_netlist returned, "" if there is none
FinalLog ==
    IF \E e \in hist.final_dir : e.name = N_validate_log
    THEN Decode((CHOOSE e \in hist.final_dir : e.name = N_validate_log).data)
    ELSE <<>>

\* C9: when validate_netlist's ngspice run completes, ok iff the exit code is
\* 0 and no log line holds "error:" or "fatal"; otherwise the error is
\* validation_failed with details.exit_code, and details.log_excerpt iff the
\* log text is non-empty
C9_ValidateVerdict ==
    (DoneAfterRun("validate_netlist") /\ LastRun.outcome.kind = "tuple") =>
        /\ result.kind = "return"
        /\ result.env.ok = (LastRun.outcome.exit_code = 0 /\ ~LogReportsError(FinalLog))
        /\ (~result.env.ok) =>
              /\ result.env.error.type = "validation_failed"
              /\ result.env.error.details.o["exit_code"] = JNum(LastRun.outcome.exit_code)
              /\ ("log_excerpt" \in DOMAIN result.env.error.details.o) <=> (FinalLog # <<>>)

\* exit code 0, and the log reports an error in mixed case
C9_Witness ==
    /\ DoneAfterRun("validate_netlist") /\ LastRun.outcome.kind = "tuple"
    /\ LastRun.outcome.exit_code = 0
    /\ FinalLog = L_error
    /\ ~result.env.ok
    /\ result.env.error.details.o["log_excerpt"] = JStr(L_error)

\* the collection rule, on an entry of the working directory
PassesCollectionRule(e, max_file_bytes) ==
    /\ e.kind = "file"
    /\ Len(e.name) > 4
    /\ Lower(SubSeq(e.name, Len(e.name) - 3, Len(e.name))) \in ALLOWED_FILE_EXTENSIONS
    /\ Len(e.data) <= max_file_bytes

\* every file of the final working directory that passes the rule is returned
AllArtifactsReturned ==
    \A e \in hist.final_dir :
        PassesCollectionRule(e, IntVal(call.cfg.max_file_bytes)) =>
            \E i \in 1..Len(result.env.files) :
                result.env.files[i] = [name |-> e.name, data |-> e.data]

\* C10 as claimed: in every outcome in which the ngspice process was started,
\* a runner failure such as a timeout included, the files list holds every
\* file that passes the collection rule
C10_FilesInEveryOutcome ==
    (DoneAfterRun("validate_netlist") /\ hist.runs[1].started) => AllArtifactsReturned

\* C10 as amended: when the ngspice run completed (ok true or
\* validation_failed) the files list holds every file that passes the rule;
\* when the runner failed, the files list is empty
C10_FilesWhenRunCompletes ==
    DoneAfterRun("validate_netlist") =>
        /\ LastRun.outcome.kind = "tuple" => AllArtifactsReturned
        /\ LastRun.outcome.kind = "error" => result.env.files = <<>>

\* validation_failed, with validate.log and OUT.RAW returned
C10_Witness ==
    /\ DoneAfterRun("validate_netlist") /\ LastRun.outcome.kind = "tuple"
    /\ result.env.error # JNull
    /\ result.env.error.type = "validation_failed"
    /\ Len(result.env.files) = 2

\* C11: when smoketest's ngspice run completes, ok iff the exit code is 0 and
\* at least one file passes the collection rule; otherwise the error is
\* process_failed, and the collected files, stdout, stderr and the exit code
\* are returned all the same
C11_SmoketestVerdict ==
    (DoneAfterRun("smoketest") /\ LastRun.outcome.kind = "tuple") =>
        /\ result.kind = "return"
        /\ result.env.ok =
             (/\ LastRun.outcome.exit_code = 0
              /\ \E e \in hist.final_dir :
                    PassesCollectionRule(e, IntVal(call.cfg.max_file_bytes)))
        /\ (~result.env.ok) =>
              /\ result.env.error # JNull
              /\ result.env.error.type = "process_failed"
        /\ AllArtifactsReturned
        /\ result.env.stdout = LastRun.outcome.stdout_text
        /\ result.env.stderr = LastRun.outcome.stderr_text
        /\ result.env.metrics.exit_code = LastRun.outcome.exit_code

\* exit code 0, smoke.raw written but larger than max_file_bytes: not ok
C11_Witness ==
    /\ DoneAfterRun("smoketest") /\ LastRun.outcome.kind = "tuple"
    /\ LastRun.outcome.exit_code = 0
    /\ \E e \in hist.final_dir : e.name = N_smoke_raw
    /\ result.env.files = <<>>
    /\ ~result.env.ok
    /\ result.env.error.type = "process_failed"

\* the arguments of the direct run_process call fail one of its preconditions
InvalidRunArguments ==
    \/ call.argv = <<>>
    \/ IntVal(call.cfg.timeout_ms) <= 0
    \/ IntVal(call.cfg.max_stdout_bytes) <= 0
    \/ IntVal(call.cfg.max_stderr_bytes) <= 0

\* C12: run_process attempts no launch and fails with invalid_request when
\* argv is empty or timeout_ms or a byte cap is <= 0; otherwise it attempts
\* exactly one launch, and a failed launch ends the call with
\* process_not_found (details.argv0) or process_start_failed, without a retry
C12_LaunchAttempts ==
    (RunnerCall /\ call.status \in {"running", "done"}) =>
        /\ Len(hist.runs) = 1
        /\ hist.runs[1].popen = ~InvalidRunArguments
        /\ InvalidRunArguments =>
              /\ Done /\ result.kind = "error"
              /\ result.error_type = "invalid_request"
              /\ ~hist.runs[1].started
        /\ (~InvalidRunArguments /\ ~hist.runs[1].started) =>
              /\ Done /\ result.kind = "error"
              /\ result.error_type \in {"process_not_found", "process_start_failed"}
              /\ result.error_type = "process_not_found" =>
                    result.details = JObj([k \in {"argv0"} |-> JStr(<<call.argv[1]>>)])

\* the executable is not found: one launch attempt, then process_not_found
C12_Witness ==
    /\ Done /\ RunnerCall /\ ~InvalidRunArguments
    /\ Len(hist.runs) = 1 /\ hist.runs[1].popen /\ ~hist.runs[1].started
    /\ result.kind = "error"
    /\ result.error_type = "process_not_found"
    /\ result.details = JObj([k \in {"argv0"} |-> JStr(<<"python">>)])

\* the member `key` of the request is present with a value that is a string,
\* a number, a boolean or an array
PresentNonObject(body, key) ==
    /\ key \in DOMAIN body.o
    /\ body.o[key].t \in {"str", "num", "float", "bool", "arr"}

\* C13: for tool "ngspice" and a known op, inputs or limits present with a
\* non-object value makes handle_run return invalid_request without invoking
\* an adapter operation
C13_NonObjectInputsOrLimits ==
    (/\ call.entry = "handle_run" /\ call.status \in {"dispatched", "done"}
     /\ payload # JNull /\ IsDict(payload)
     /\ Get(payload, "tool") = JStr(S_ngspice)
     /\ Get(payload, "op") \in KnownOps
     /\ (PresentNonObject(payload, "inputs") \/ PresentNonObject(payload, "limits"))) =>
        /\ Done
        /\ result.kind = "return"
        /\ result.env.ok = FALSE
        /\ result.env.error.type = "invalid_request"
        /\ hist.runs = <<>> /\ hist.tmpdirs = 0

\* C14: once the read loop has ended and the child has exited, each capture
\* buffer holds the first min(written, cap) bytes the child wrote to its
\* stream: the loop does not end while written data are unread
C14_NoLostOutput ==
    (InLoop /\ RunnerCall /\ rp.pc = "wait" /\ child.state = "exited") =>
        /\ rp.stdout_buf = Take(child.written.stdout, IntVal(rp.max_stdout_bytes))
        /\ rp.stderr_buf = Take(child.written.stderr, IntVal(rp.max_stderr_bytes))

\* C15: run_process fails with "timeout" only if its child was still running
\* when the elapsed time reached timeout_ms; a child that exited earlier
\* never yields a timeout, whatever is left unread in its streams
C15_TimeoutOnlyIfRunning ==
    (Done /\ RunnerCall /\ result.kind = "error" /\ result.error_type = "timeout") =>
        ~(child.state = "exited" /\ child.exited_at < IntVal(call.cfg.timeout_ms))

\* C16: on timeout the runner terminates, waits up to 0.5 s, and kills only a
\* child that did not exit in that wait; the timeout error is raised after
\* this sequence, and it carries no stdout or stderr
C16_CancellationOrder ==
    RunnerCall =>
        /\ "SIGKILL" \in child.signalled =>
              /\ "SIGTERM" \in child.signalled
              /\ hist.cancel = <<"terminate", "wait_expired", "kill">>
        /\ (Len(hist.cancel) >= 2 /\ hist.cancel[2] = "wait_returned") =>
              "SIGKILL" \notin child.signalled
        /\ (hist.cancel # <<>> /\ Done) =>
              /\ result.kind = "error" /\ result.error_type = "timeout"
        /\ (Done /\ result.kind = "error" /\ result.error_type = "timeout") =>
              /\ hist.cancel \in {<<"terminate", "wait_returned">>,
                                  <<"terminate", "wait_expired", "kill">>}
              /\ result.details = JObj([k \in {"timeout_ms"} |-> call.cfg.timeout_ms])
              /\ DOMAIN result = {"kind", "error_type", "message", "details"}

\* a child that wrote to stdout and ignored SIGTERM is killed after the
\* grace wait; the caller gets the timeout error alone
C16_Witness ==
    /\ Done /\ RunnerCall
    /\ result.kind = "error" /\ result.error_type = "timeout"
    /\ hist.cancel = <<"terminate", "wait_expired", "kill">>
    /\ child.signalled = {"SIGTERM", "SIGKILL"}
    /\ child.written.stdout # <<>>

\* C17: during an operation at most one child it launched is alive: no
\* child is started while the previous one runs, a normal return of
\* run_process finds its child exited, and no child is running once the
\* operation has returned, with an envelope of success or of timeout
C17_OneLiveChild ==
    (call.op \in {"version", "smoketest", "validate_netlist"}) =>
        /\ \A i \in 1..Len(hist.runs) :
              /\ ~hist.runs[i].overlaps
              /\ hist.runs[i].outcome.kind = "tuple" =>
                    (i < Len(hist.runs) \/ child.state = "exited")
        /\ Done => child.state # "running"

\* what C18 requires of one stream in a state of the read loop
CaptureConsistent(buf, truncated, cap, bytes_read) ==
    /\ Len(buf) <= cap
    /\ Len(buf) <= Len(bytes_read)
    /\ buf = SubSeq(bytes_read, 1, Len(buf))
    /\ truncated <=> (Len(bytes_read) > cap)

\* a step within one run_process call leaves a set truncation flag set
FlagsKept ==
    (InLoop /\ call'.status = "running" /\ hist'.runs = hist.runs) =>
        /\ rp.stdout_truncated => rp'.stdout_truncated
        /\ rp.stderr_truncated => rp'.stderr_truncated

\* C18: in every state of the read loop each capture buffer is no longer
\* than its cap and is a prefix of the bytes read from its stream, the
\* truncation flag is set iff more bytes than the cap were read, a set flag
\* stays set, and a stream that returned zero bytes is not read again
C18_CaptureInvariant ==
    /\ [](InLoop =>
            /\ CaptureConsistent(rp.stdout_buf, rp.stdout_truncated,
                                 IntVal(rp.max_stdout_bytes), rp.read.stdout)
            /\ CaptureConsistent(rp.stderr_buf, rp.stderr_truncated,
                                 IntVal(rp.max_stderr_bytes), rp.read.stderr)
            /\ rp.eof \cap (rp.registered \cup rp.events) = {})
    /\ [][FlagsKept]_vars

\* three bytes read from stdout in two reads with a cap of one, stderr at
\* end of file
C18_Witness ==
    /\ InLoop /\ RunnerCall
    /\ rp.read.stdout = <<"a", "xC3", "xA9">>
    /\ rp.stdout_buf = <<"a">>
    /\ rp.stdout_truncated
    /\ "stderr" \in rp.eof
    /\ "stdout" \in rp.registered

\* the effective value C19 gives a key: the caller's override when the key is
\* present with an integer, the default otherwise
EffectiveLimit(limits, key) ==
    IF IsDict(limits) /\ key \in DOMAIN limits.o /\ limits.o[key].t = "num"
    THEN limits.o[key]
    ELSE InitialDefaultLimits[key]

\* C19: the effective limits of an operation have exactly the four keys,
\* each with the caller's integer override or else the default, and
\* DEFAULT_LIMITS is never changed
C19_EffectiveLimits ==
    /\ default_limits = InitialDefaultLimits
    /\ (Done /\ call.op = "validate_netlist" /\ hist.runs = <<>>
             /\ result.kind = "return") =>
          /\ DOMAIN call.cfg = LimitKeys
          /\ \A key \in LimitKeys : call.cfg[key] = EffectiveLimit(call.limits, key)

\* C20: the collected files are exactly the regular files of the working
\* directory with extension .log, .raw or .txt in any case and a size of at
\* most max_file_bytes, each once, in ascending order of name
C20_CollectedFiles ==
    (/\ Done /\ call.op \in {"smoketest", "validate_netlist"}
     /\ hist.runs # <<>> /\ LastRun.outcome.kind = "tuple") =>
        LET files == result.env.files
            cap == IntVal(call.cfg.max_file_bytes)
        IN  /\ \A i \in 1..Len(files) :
                  \E e \in hist.final_dir :
                      /\ PassesCollectionRule(e, cap)
                      /\ files[i] = [name |-> e.name, data |-> e.data]
            /\ \A e \in hist.final_dir :
                  PassesCollectionRule(e, cap) =>
                      \E i \in 1..Len(files) : files[i].name = e.name
            /\ \A i, j \in 1..Len(files) :
                  i < j => NameLess(files[i].name, files[j].name)

\* of input.cir, an oversized validate.log, OUT.RAW and a directory named
\* sub.txt, only OUT.RAW is collected
C20_Witness ==
    /\ Done /\ call.op = "validate_netlist"
    /\ hist.runs # <<>> /\ LastRun.outcome.kind = "tuple"
    /\ Cardinality(hist.final_dir) = 4
    /\ IntVal(call.cfg.max_file_bytes) = 2
    /\ result.env.files = <<[name |-> N_OUT_RAW, data |-> <<"a">>]>>


====
